---- MODULE Spec2Model ----
(***************************************************************************)
(* ForkliftRouteOptimizer (src/thompson-stm.py): contextual Thompson       *)
(* sampling over a sliding window of (route, success) observations.        *)
(* The engine's fields are the variables; every public method is one       *)
(* action.  log, seen and last are history variables: what the caller did. *)
(***************************************************************************)
EXTENDS Integers, Sequences, FiniteSets, TLC

\* ---- bounds of the exploration ----
MaxUpdates == 2     \* update calls in a run over all contexts (Spec)
MaxDeep == 3        \* update calls in a run on one context (SpecDeep)
MaxMemory == 2      \* largest memory the constructor is given

\* ---- inputs the caller may pass ----
Zones == {"z1", "z2"}
Tasks == {"pick", "put"}
Contexts == (Zones \X Tasks) \ {<<"z2", "put">>}
Focus == <<"z1", "pick">>
RouteMinArgs == {2, 3, 4}
RouteMaxArgs == {3}
TauArgs == {-1, 0, 1}
MemoryArgs == 0..MaxMemory
SuccessArgs == {0, 1, 2}

NoCtx == <<"none", "none">>
NoArgs == <<0, 0, 0, 0>>
NoStats == <<>>

VARIABLES
    engine,         \* "none" before construction, "ok" constructed, "failed" ValueError
    route_min, route_max, tau, memory,
    route_history,  \* context -> window (sequence of <<route, success>>)
    beta_params,    \* context -> (route -> <<alpha, beta>>)
    log,            \* history: context -> every <<route, success>> passed to update
    seen,           \* history: the contexts passed to select_route or update
    last            \* history: the last call, its arguments, its outcome and whether
                    \* it created its context

vars == <<engine, route_min, route_max, tau, memory, route_history, beta_params, log, seen, last>>

\* ---- helpers ----
Call(op, ctx, args, raised, route, stats, created) ==
    [op |-> op, ctx |-> ctx, args |-> args, raised |-> raised, route |-> route, stats |-> stats,
     created |-> created]

Routes == route_min..route_max

RouteArgs == route_min..(route_max + 1)

RECURSIVE SumLen(_, _)
SumLen(f, S) ==
    IF S = {} THEN 0
    ELSE LET c == CHOOSE x \in S : TRUE IN Len(f[c]) + SumLen(f, S \ {c})

Issued == SumLen(log, Contexts)

\* faulty variant: route_min == route_max let through
validate_init_params_strict(rmin, rmax, t, m) ==
    \/ rmin > rmax
    \/ t <= 0
    \/ m < 1

\* validate_init_params: the three checks, in order; TRUE when one raises
validate_init_params(rmin, rmax, t, m) ==
    \/ rmin >= rmax
    \/ t <= 0
    \/ m < 1

\* faulty variant: range(route_min, route_max) leaves route_max out
InitCountsExclusive(lo, hi) == [r \in lo..(hi - 1) |-> <<1, 1>>]

\* the {route: [1, 1] for route in range(route_min, route_max + 1)} comprehension
InitCounts(lo, hi) == [r \in lo..hi |-> <<1, 1>>]

\* faulty variant: deque() built without maxlen, nothing is ever evicted
DequeAppendUnbounded(q, x, n) == Append(q, x)

\* deque(maxlen=n).append(x)
DequeAppend(q, x, n) ==
    IF n = 0 THEN q
    ELSE IF Len(q) >= n THEN Append(Tail(q), x)
    ELSE Append(q, x)

\* the "if context not in self.route_history" block, on each registry
EnsureHistory(h, c) == IF c \in DOMAIN h THEN h ELSE h @@ (c :> <<>>)

\* faulty variant: the whole beta_params dict is replaced on creation
EnsureBetasOverwrite(h, b, c) ==
    IF c \in DOMAIN h THEN b ELSE (c :> InitCounts(route_min, route_max))

\* faulty variant: the membership test is missing, every call re-initialises
EnsureBetasAlways(h, b, c) ==
    (c :> InitCounts(route_min, route_max)) @@ b

EnsureBetas(h, b, c) ==
    IF c \in DOMAIN h THEN b ELSE (c :> InitCounts(route_min, route_max)) @@ b

\* faulty variant: beta is incremented by success instead of 1 - success
CountStepNoComplement(acc, obs) ==
    IF acc.raised THEN acc
    ELSE IF obs[1] \notin DOMAIN acc.counts THEN [raised |-> TRUE, counts |-> acc.counts]
    ELSE [raised |-> FALSE,
          counts |-> [acc.counts EXCEPT ![obs[1]] = <<@[1] + obs[2], @[2] + obs[2]>>]]

\* faulty variant: counts is a defaultdict, an unknown route becomes a new key
CountStepSetdefault(acc, obs) ==
    LET c0 == IF obs[1] \in DOMAIN acc.counts THEN acc.counts
              ELSE (obs[1] :> <<1, 1>>) @@ acc.counts
    IN [raised |-> FALSE,
        counts |-> [c0 EXCEPT ![obs[1]] = <<@[1] + obs[2], @[2] + (1 - obs[2])>>]]

\* one iteration of the loop of _recompute_betas; counts[route] raises KeyError
\* when route is not a key
CountStep(acc, obs) ==
    IF acc.raised THEN acc
    ELSE IF obs[1] \notin DOMAIN acc.counts THEN [raised |-> TRUE, counts |-> acc.counts]
    ELSE [raised |-> FALSE,
          counts |-> [acc.counts EXCEPT ![obs[1]] = <<@[1] + obs[2], @[2] + (1 - obs[2])>>]]

RECURSIVE CountLoop(_, _)
CountLoop(acc, w) ==
    IF w = <<>> THEN acc ELSE CountLoop(CountStep(acc, Head(w)), Tail(w))

\* _recompute_betas up to the assignment: the local counts, or the KeyError
recompute_betas(w, lo, hi) ==
    CountLoop([raised |-> FALSE, counts |-> InitCounts(lo, hi)], w)

\* np.random.beta(a, b) raises ValueError unless a > 0 and b > 0
BetaRaises(params) == \E r \in DOMAIN params : params[r][1] <= 0 \/ params[r][2] <= 0

\* beta_params.get(context, {})
Stats(b, c) == IF c \in DOMAIN b THEN b[c] ELSE NoStats

\* ---- the state before the constructor runs ----
Init ==
    /\ engine = "none"
    /\ route_min = 0 /\ route_max = 0 /\ tau = 0 /\ memory = 0
    /\ route_history = <<>>
    /\ beta_params = <<>>
    /\ log = [c \in Contexts |-> <<>>]
    /\ seen = {}
    /\ last = Call("init", NoCtx, NoArgs, FALSE, 0, NoStats, FALSE)

\* ---- __init__ ----
Construct(rmin, rmax, t, m) ==
    /\ engine = "none"
    /\ IF validate_init_params(rmin, rmax, t, m)
       THEN /\ engine' = "failed"
            /\ UNCHANGED <<route_min, route_max, tau, memory, route_history, beta_params>>
       ELSE /\ engine' = "ok"
            /\ route_min' = rmin /\ route_max' = rmax /\ tau' = t /\ memory' = m
            /\ route_history' = <<>>
            /\ beta_params' = <<>>
    /\ last' = Call("construct", NoCtx, <<rmin, rmax, t, m>>,
                    validate_init_params(rmin, rmax, t, m), 0, NoStats, FALSE)
    /\ UNCHANGED <<log, seen>>

\* faulty variant: the creation block of select_route lacks its membership
\* test, so a selection re-creates the window and the Beta parameters
select_route_reinit(c) ==
    /\ engine = "ok"
    /\ LET h1 == (c :> <<>>) @@ route_history
           b1 == (c :> InitCounts(route_min, route_max)) @@ beta_params
       IN /\ route_history' = h1
          /\ beta_params' = b1
          /\ \E r \in DOMAIN b1[c] :
                last' = Call("select", c, NoArgs, FALSE, r, NoStats,
                             c \notin DOMAIN route_history)
    /\ seen' = seen \cup {c}
    /\ UNCHANGED <<engine, route_min, route_max, tau, memory, log>>

\* ---- select_route ----
select_route(c) ==
    /\ engine = "ok"
    /\ LET h1 == EnsureHistory(route_history, c)
           b1 == EnsureBetas(route_history, beta_params, c)
       IN /\ route_history' = h1
          /\ beta_params' = b1
          /\ IF BetaRaises(b1[c])
             THEN last' = Call("select", c, NoArgs, TRUE, 0, NoStats, c \notin DOMAIN route_history)
             ELSE \E r \in DOMAIN b1[c] :
                     last' = Call("select", c, NoArgs, FALSE, r, NoStats,
                                  c \notin DOMAIN route_history)
    /\ seen' = seen \cup {c}
    /\ UNCHANGED <<engine, route_min, route_max, tau, memory, log>>

\* ---- update ----
update(c, route, success) ==
    /\ engine = "ok"
    /\ LET h1 == EnsureHistory(route_history, c)
           b1 == EnsureBetas(route_history, beta_params, c)
           h2 == [h1 EXCEPT ![c] = DequeAppend(@, <<route, success>>, memory)]
           rc == recompute_betas(h2[c], route_min, route_max)
       IN /\ route_history' = h2
          /\ beta_params' = IF rc.raised THEN b1 ELSE [b1 EXCEPT ![c] = rc.counts]
          /\ last' = Call("update", c, <<route, success, 0, 0>>, rc.raised, 0, NoStats,
                          c \notin DOMAIN route_history)
    /\ log' = [log EXCEPT ![c] = Append(@, <<route, success>>)]
    /\ seen' = seen \cup {c}
    /\ UNCHANGED <<engine, route_min, route_max, tau, memory>>

\* faulty variant: setdefault instead of get, the lookup creates the context
get_route_stats_setdefault(c) ==
    /\ engine = "ok"
    /\ route_history' = EnsureHistory(route_history, c)
    /\ beta_params' = EnsureBetas(route_history, beta_params, c)
    /\ last' = Call("stats", c, NoArgs, FALSE, 0, Stats(beta_params', c),
                    c \notin DOMAIN route_history)
    /\ UNCHANGED <<engine, route_min, route_max, tau, memory, log, seen>>

\* ---- get_route_stats ----
get_route_stats(c) ==
    /\ engine = "ok"
    /\ last' = Call("stats", c, NoArgs, FALSE, 0, Stats(beta_params, c), FALSE)
    /\ UNCHANGED <<engine, route_min, route_max, tau, memory, route_history, beta_params, log, seen>>

\* the caller: constructs once, then calls the three methods in any order;
\* it passes update at most cap times, on the contexts of U
Caller(U, cap) ==
    \/ \E rmin \in RouteMinArgs, rmax \in RouteMaxArgs, t \in TauArgs, m \in MemoryArgs :
          Construct(rmin, rmax, t, m)
    \/ \E c \in Contexts : select_route(c)
    \/ \E c \in U, route \in RouteArgs, success \in SuccessArgs :
          Issued < cap /\ update(c, route, success)
    \/ \E c \in Contexts : get_route_stats(c)

Next == Caller(Contexts, MaxUpdates)

NextDeep == Caller({Focus}, MaxDeep)

Spec == Init /\ [][Next]_vars

SpecDeep == Init /\ [][NextDeep]_vars

\* ======================= properties =======================
Min(a, b) == IF a < b THEN a ELSE b

Exists(c) == c \in DOMAIN route_history /\ c \in DOMAIN beta_params

\* a caller-valid observation: route in the action space, success binary
ValidObs(p) == p[1] \in Routes /\ p[2] \in {0, 1}

AllValid(s) == \A i \in 1..Len(s) : ValidObs(s[i])

\* number of occurrences of <<A, o>> in the sequence w
Count(w, A, o) == Cardinality({i \in 1..Len(w) : w[i] = <<A, o>>})

\* the k most recent entries of s, oldest first
LastN(s, k) == SubSeq(s, Len(s) - k + 1, Len(s))

RECURSIVE SumOver(_, _)
SumOver(f, S) ==
    IF S = {} THEN 0
    ELSE LET r == CHOOSE x \in S : TRUE
         IN (f[r][1] - 1) + (f[r][2] - 1) + SumOver(f, S \ {r})

\* observations contributing to a context's Beta parameters
Contributing(c) == SumOver(beta_params[c], DOMAIN beta_params[c])

\* C1: after update calls that were all valid (route in [route_min, route_max],
\* success 0 or 1), get_route_stats(c)[A] = (1 + #(A,1) in c's window,
\* 1 + #(A,0) in c's window) for every existing context c and every route A.
C1_BetaRecomputation ==
    \A c \in Contexts :
        (Exists(c) /\ AllValid(log[c])) =>
            \A A \in Routes :
                /\ A \in DOMAIN Stats(beta_params, c)
                /\ Stats(beta_params, c)[A] =
                       <<1 + Count(route_history[c], A, 1), 1 + Count(route_history[c], A, 0)>>

\* C1 witness: three valid updates through a window of two, route 2 keeps one
\* success and one failure
C1_Witness ==
    /\ memory = 2
    /\ Len(log[Focus]) = 3
    /\ AllValid(log[Focus])
    /\ Exists(Focus)
    /\ beta_params[Focus][2] = <<2, 2>>

\* C2: after n update calls on c, the observations contributing to c's Beta
\* parameters number min(n, memory), and the window is never longer than memory.
C2_WindowBound ==
    \A c \in Contexts :
        Exists(c) =>
            /\ Contributing(c) = Min(Len(log[c]), memory)
            /\ Len(route_history[c]) <= memory

\* C3: strict FIFO: the window is the most recent min(n, memory) observations in
\* issue order, and a route with no observation among them is back at (1, 1).
C3_StrictFifo ==
    \A c \in Contexts :
        Exists(c) =>
            LET recent == LastN(log[c], Min(Len(log[c]), memory))
            IN /\ route_history[c] = recent
               /\ \A A \in Routes :
                     (\A i \in 1..Len(recent) : recent[i][1] # A) =>
                         beta_params[c][A] = <<1, 1>>

\* C4: an update or select_route on context X leaves every other context Y as it
\* was: not created, window, Beta parameters and get_route_stats(Y) unchanged.
C4_ContextIsolation ==
    [][\A Y \in Contexts :
          (last'.op \in {"update", "select"} /\ last'.ctx # Y) =>
              /\ (Y \in DOMAIN route_history') = (Y \in DOMAIN route_history)
              /\ (Y \in DOMAIN beta_params') = (Y \in DOMAIN beta_params)
              /\ Y \in DOMAIN route_history => route_history'[Y] = route_history[Y]
              /\ Stats(beta_params', Y) = Stats(beta_params, Y)]_vars

\* C4 witness: an update on (z2, pick), one on (z1, put), while (z1, pick) holds
\* an observation
C4_Witness ==
    /\ last.op = "update"
    /\ last.ctx # Focus
    /\ \E Y \in Contexts \ {last.ctx} : Exists(Y) /\ Len(route_history[Y]) = 1
                                        /\ \E A \in Routes : beta_params[Y][A] # <<1, 1>>

\* C5: every select_route call returns a route in [route_min, route_max].
C5_ActionSpaceClosure ==
    last.op = "select" => (~last.raised /\ last.route \in Routes)

\* C6: once a context exists, the keys of get_route_stats for it are exactly
\* route_min..route_max, whatever routes were passed to update.
C6_KeysAreActionSpace ==
    \A c \in Contexts :
        (c \in DOMAIN route_history \/ c \in DOMAIN beta_params) =>
            DOMAIN Stats(beta_params, c) = Routes

\* C6 witness: an update with a route outside the action space has been made
C6_Witness ==
    /\ last.op = "update"
    /\ last.args[1] \notin Routes
    /\ Exists(last.ctx)

\* C7: get_route_stats is a pure read: it changes no engine state, returns the
\* context's Beta parameters, and the empty mapping for a context never passed
\* to select_route or update.
C7_StatsPureRead ==
    [][last'.op = "stats" =>
          /\ route_history' = route_history
          /\ beta_params' = beta_params
          /\ <<engine', route_min', route_max', tau', memory'>> =
                 <<engine, route_min, route_max, tau, memory>>
          /\ last'.ctx \notin seen => last'.stats = NoStats
          /\ last'.ctx \in DOMAIN beta_params => last'.stats = beta_params[last'.ctx]]_vars

\* C7 witness: get_route_stats on an unseen context while another context exists
C7_Witness ==
    /\ last.op = "stats"
    /\ last.ctx \notin seen
    /\ last.stats = NoStats
    /\ seen # {}

\* C8: a context passed to select_route or update exists; with no update on it
\* (or none that got past the recomputation) its window is empty and every
\* route of route_min..route_max is at (1, 1).
C8_LazyCreation ==
    \A c \in seen :
        /\ Exists(c)
        /\ log[c] = <<>> => route_history[c] = <<>>
        /\ (\A i \in 1..Len(log[c]) : log[c][i][1] \notin Routes) =>
               Stats(beta_params, c) = [r \in route_min..route_max |-> <<1, 1>>]

\* C8 witness: a context created by select_route alone
C8_Witness ==
    /\ last.op = "select"
    /\ ~last.raised
    /\ log[last.ctx] = <<>>
    /\ Exists(last.ctx)

\* C9: select_route on an existing context leaves its window and Beta
\* parameters (and every other one) unchanged and records no observation.
C9_SelectRecordsNothing ==
    [][(last'.op = "select" /\ last'.ctx \in DOMAIN route_history) =>
          /\ route_history' = route_history
          /\ beta_params' = beta_params
          /\ log' = log]_vars

\* C9 witness: select_route returned on a context that holds observations
C9_Witness ==
    /\ last.op = "select"
    /\ ~last.raised
    /\ Len(log[last.ctx]) >= 1
    /\ \E A \in Routes : beta_params[last.ctx][A] # <<1, 1>>

\* C10: construction raises iff route_min >= route_max or tau <= 0 or
\* memory < 1; on failure no engine exists, on success the engine has no
\* contexts and holds the given route_min, route_max, tau and memory.
C10_ConstructionValidation ==
    /\ last.op = "construct" =>
          /\ last.raised = (\/ last.args[1] >= last.args[2]
                            \/ last.args[3] <= 0
                            \/ last.args[4] < 1)
          /\ last.raised => engine = "failed"
          /\ ~last.raised =>
                /\ engine = "ok"
                /\ DOMAIN route_history = {} /\ DOMAIN beta_params = {}
                /\ <<route_min, route_max, tau, memory>> = last.args
                /\ Routes = last.args[1]..last.args[2]
    /\ engine = "failed" => last.op = "construct" /\ last.raised
    /\ engine = "ok" => route_min < route_max /\ tau > 0 /\ memory >= 1

\* C10 witness: route_min = route_max with tau and memory valid is refused
C10_Witness ==
    /\ engine = "failed"
    /\ last.args = <<3, 3, 1, 1>>

\* C11: an update whose route is outside [route_min, route_max] is rejected: the
\* call raises and the observation is in no context's window.
C11_InvalidActionRejected ==
    /\ (last.op = "update" /\ last.args[1] \notin Routes) => last.raised
    /\ \A c \in DOMAIN route_history :
          \A i \in 1..Len(route_history[c]) : route_history[c][i][1] \in Routes

\* C12: an update whose success is not 0 or 1 is rejected: the call raises and
\* neither a window nor a Beta parameter changes.
C12_InvalidOutcomeRejected ==
    [][(last'.op = "update" /\ last'.args[2] \notin {0, 1}) =>
          /\ last'.raised
          /\ route_history' = route_history
          /\ beta_params' = beta_params]_vars

\* C13: for every existing context and every route, alpha >= 1 and beta >= 1.
C13_BetaAtLeastOne ==
    \A c \in DOMAIN beta_params :
        \A A \in DOMAIN beta_params[c] :
            beta_params[c][A][1] >= 1 /\ beta_params[c][A][2] >= 1

\* C14: a call that ends by raising leaves the set of contexts, every window and
\* every Beta parameter exactly as they were before the call.
C14_NoPartialFailure ==
    [][last'.raised =>
          /\ route_history' = route_history
          /\ beta_params' = beta_params]_vars

\* the Beta parameters of route A recomputed from scratch over the sequence w:
\* (1 + sum of success, 1 + sum of (1 - success)) over the observations of A
RECURSIVE Tally(_, _)
Tally(w, A) ==
    IF w = <<>> THEN <<1, 1>>
    ELSE LET t == Tally(Tail(w), A)
             o == Head(w)
         IN IF o[1] = A THEN <<t[1] + o[2], t[2] + (1 - o[2])>> ELSE t

\* C16: in every reachable state each existing context's Beta parameters equal
\* the from-scratch recomputation over its current window.
C16_NoDrift ==
    \A c \in Contexts :
        Exists(c) => beta_params[c] = [A \in Routes |-> Tally(route_history[c], A)]

\* C17: after valid updates on a context its window and Beta parameters are the
\* same function of the updates issued, whether select_route or update referenced
\* the context first and however many select_route calls came in between.
C17_SameCreationOnBothPaths ==
    \A c \in seen :
        AllValid(log[c]) =>
            LET recent == LastN(log[c], Min(Len(log[c]), memory))
            IN /\ Exists(c)
               /\ route_history[c] = recent
               /\ beta_params[c] = [A \in Routes |-> Tally(recent, A)]

\* C17 witness: the first update on a context that select_route had created
C17_Witness ==
    /\ last.op = "update"
    /\ ~last.created
    /\ ~last.raised
    /\ Len(log[last.ctx]) = 1
    /\ AllValid(log[last.ctx])
    /\ memory = 2

\* C18: route_history and beta_params always have the same context keys, also
\* after an update that raised, and no step removes a key.
C18_RegistriesInStep ==
    /\ [](DOMAIN route_history = DOMAIN beta_params)
    /\ [][/\ DOMAIN route_history \subseteq DOMAIN route_history'
          /\ DOMAIN beta_params \subseteq DOMAIN beta_params']_vars

\* C18 witness: a second context created by an update that raised
C18_Witness ==
    /\ last.op = "update"
    /\ last.raised
    /\ last.created
    /\ Cardinality(DOMAIN route_history) = 2
    /\ DOMAIN beta_params = DOMAIN route_history

\* ---- C19: what an out-of-range route does to its context ----
OutOfRange(p) == p[1] \notin Routes

\* the Beta parameters of c as a caller sees them before a call: those stored,
\* or the (1, 1) table the call's creation block is about to store
ParamsBefore(c) ==
    IF c \in DOMAIN beta_params THEN beta_params[c] ELSE [A \in Routes |-> <<1, 1>>]

\* an update step on c, the n-th: the pair is appended (FIFO) whether or not the
\* call raises, no other context changes, and while an out-of-range pair issued
\* fewer than memory calls ago is among the updates the call raises and leaves
\* the parameters of c as they were
PoisonedWhileInWindow ==
    last'.op = "update" =>
        LET c == last'.ctx
            n == Len(log'[c])
        IN /\ route_history'[c] = LastN(log'[c], Min(n, memory))
           /\ \A Y \in Contexts \ {c} :
                 /\ Stats(beta_params', Y) = Stats(beta_params, Y)
                 /\ (Y \in DOMAIN route_history') = (Y \in DOMAIN route_history)
                 /\ Y \in DOMAIN route_history => route_history'[Y] = route_history[Y]
           /\ \A i \in 1..n :
                 (OutOfRange(log'[c][i]) /\ n < i + memory) =>
                     /\ last'.raised
                     /\ beta_params'[c] = ParamsBefore(c)

\* between updates nothing moves the parameters
QuietBetweenUpdates ==
    (last'.op \in {"select", "stats"} /\ last'.ctx \in DOMAIN beta_params) =>
        beta_params' = beta_params

====
